---------------------------- MODULE Spec2Model ----------------------------
(***************************************************************************)
(* Model of the novelty-detection and personalised-ranking pipeline of     *)
(* daily_academic_report.py: the seen-item store (load_seen_keys,          *)
(* update_seen_keys, filter_new_items), the oracle scoring client          *)
(* (score_item_with_deepseek), the ranking step                            *)
(* (personalized_recommendations, with its thread pool) and main.          *)
(*                                                                         *)
(* Three specifications share the module:                                  *)
(*   Spec      the seen-store operations, called in any order;             *)
(*   SpecRank  one call of personalized_recommendations, thread by thread; *)
(*   SpecMain  successive runs of main over one persisted store.           *)
(***************************************************************************)
EXTENDS Integers, Sequences, FiniteSets, TLC

VARIABLES
    store,       \* the file at SEEN_PATH
    op,          \* Spec: the last operation called ("init" before any)
    arg,         \* Spec: the batch the last operation was called with
    pre,         \* Spec: the file at SEEN_PATH when the last operation started
    ret,         \* Spec: what the last operation returned
    everLoaded,  \* Spec: every key some load_seen_keys call has returned
    nops,        \* Spec: operations called so far (3 stands for "3 or more")
    first,       \* Spec: the batch of the first call, when that call was
                 \*       filter_new_items on an absent store
    settings,    \* SpecRank: the personalization settings and the credential
    new_items,   \* SpecRank: the frame personalized_recommendations is given
    rpc,         \* SpecRank: where the call is
    candidates,  \* SpecRank: the candidate window, most recent first
    futures,     \* SpecRank: one future per submitted score call
    collected,   \* SpecRank: results the calling thread has taken from map
    ranked,      \* SpecRank: the frame the call returns
    mpc,         \* SpecMain: where main is
    raw_df,      \* SpecMain: the raw frame of the run
    is_baseline, \* SpecMain: the flag filter_new_items returned
    runs,        \* SpecMain: runs of main started so far
    reported,    \* SpecMain: keys of the rows written to some report
    earlierNew   \* SpecMain: keys classified as new in an earlier run

storeVars == <<store, op, arg, pre, ret, everLoaded, nops, first>>

rankVars == <<settings, new_items, rpc, candidates, futures, collected, ranked>>

mainVars == <<mpc, raw_df, is_baseline, runs, reported, earlierNew>>

----------------------------------------------------------------------------
(* Values                                                                  *)

\* pandas' missing value (float nan / NaT), as a cell of a DataFrame
NaN == "<NaN>"

\* a column the DataFrame does not have (dict.get falls back to its default)
Missing == "<missing>"

\* str(v) / f"{v}" / astype(str) of a cell
PyStr(v) == IF v = NaN THEN "nan" ELSE v

\* r.get(f, d) on a row
Get(r, f, d) == IF r[f] = Missing THEN d ELSE r[f]

\* the strings pandas.read_csv reads as a missing value (its default na_values)
NaValues == {"", "nan", "NaN", "NA", "N/A", "n/a", "NULL", "null", "None", "<NA>", "#N/A"}

\* pandas.read_csv on one cell of the file
ReadCell(c) == IF c \in NaValues THEN NaN ELSE c

\* DataFrame.to_csv on one cell (na_rep = "")
WriteCell(v) == IF v = NaN THEN "" ELSE v

----------------------------------------------------------------------------
(* The file at SEEN_PATH and DataFrames                                    *)
(* A DataFrame is [cols: set of column names, rows: sequence of rows], a   *)
(* row being a function from the columns to cells. A file is absent,       *)
(* unreadable (pandas.read_csv raises on it) or a csv table of raw cells.  *)

Absent == [kind |-> "absent", cols |-> {}, rows |-> <<>>]

Unreadable == [kind |-> "unreadable", cols |-> {}, rows |-> <<>>]

CsvFile(cols, rows) == [kind |-> "csv", cols |-> cols, rows |-> rows]

\* os.path.exists(SEEN_PATH)
Exists(f) == f.kind # "absent"

\* pd.read_csv(SEEN_PATH), for a file it does not raise on
ReadCsv(f) ==
    [cols |-> f.cols,
     rows |-> [i \in 1..Len(f.rows) |-> [c \in f.cols |-> ReadCell(f.rows[i][c])]]]

\* df.to_csv(SEEN_PATH, index=False)
ToCsv(df) ==
    CsvFile(df.cols,
            [i \in 1..Len(df.rows) |-> [c \in df.cols |-> WriteCell(df.rows[i][c])]])

RECURSIVE DropDuplicates(_)
\* DataFrame.drop_duplicates on the rows: the first occurrence of a row stays
DropDuplicates(rows) ==
    IF rows = <<>> THEN <<>>
    ELSE LET init == DropDuplicates(SubSeq(rows, 1, Len(rows) - 1))
             last == rows[Len(rows)]
         IN  IF \E i \in 1..Len(init) : init[i] = last THEN init
             ELSE Append(init, last)

\* a row of a frame with columns `from`, reindexed to the columns `cols`
Reindex(row, from, cols) == [c \in cols |-> IF c \in from THEN row[c] ELSE NaN]

\* pd.concat([a, b], ignore_index=True): the union of the columns, NaN where
\* a frame lacks a column
Concat(a, b) ==
    LET cols == a.cols \cup b.cols
    IN  [cols |-> cols,
         rows |-> [i \in 1..Len(a.rows) |-> Reindex(a.rows[i], a.cols, cols)]
                  \o [i \in 1..Len(b.rows) |-> Reindex(b.rows[i], b.cols, cols)]]

----------------------------------------------------------------------------
(* Items and keys                                                          *)

\* the key of a row: f"{r.get('feed_id', '')}||{r.get('link', '')}"
ItemKey(r) == PyStr(Get(r, "feed_id", "")) \o "||" \o PyStr(Get(r, "link", ""))

\* the keys of a batch
Keys(B) == {ItemKey(B[i]) : i \in 1..Len(B)}

None == [none |-> TRUE, keys |-> {}]

Some(S) == [none |-> FALSE, keys |-> S]

\* load_seen_keys(): None, or the set of keys of the file
LoadSeenKeys(f) ==
    IF ~Exists(f) THEN None
    ELSE IF f.kind = "unreadable" THEN None
    ELSE LET df_seen == ReadCsv(f)
         IN  IF "key" \notin df_seen.cols THEN None
             ELSE Some({PyStr(df_seen.rows[i]["key"]) : i \in 1..Len(df_seen.rows)})

\* update_seen_keys written without the union with the old file
UpdateSeenKeysOverwrite(f, B) ==
    IF B = <<>> THEN f
    ELSE ToCsv([cols |-> {"key"},
                rows |-> DropDuplicates([i \in 1..Len(B) |-> [c \in {"key"} |-> ItemKey(B[i])]])])

\* update_seen_keys written without the early return on an empty frame
UpdateSeenKeysNoGuard(f, B) ==
    LET df_new == [cols |-> {"key"},
                   rows |-> DropDuplicates([i \in 1..Len(B) |-> [c \in {"key"} |-> ItemKey(B[i])]])]
        df_old == IF f.kind = "unreadable" THEN [cols |-> {"key"}, rows |-> <<>>]
                  ELSE ReadCsv(f)
        merged == Concat(df_old, df_new)
    IN  IF Exists(f)
        THEN ToCsv([cols |-> merged.cols, rows |-> DropDuplicates(merged.rows)])
        ELSE ToCsv(df_new)

\* update_seen_keys(df): the file it leaves at SEEN_PATH
UpdateSeenKeys(f, B) ==
    IF B = <<>> THEN f
    ELSE LET df_new == [cols |-> {"key"},
                        rows |-> DropDuplicates(
                                   [i \in 1..Len(B) |-> [c \in {"key"} |-> ItemKey(B[i])]])]
             df_old == IF f.kind = "unreadable" THEN [cols |-> {"key"}, rows |-> <<>>]
                       ELSE ReadCsv(f)
             merged == Concat(df_old, df_new)
         IN  IF Exists(f)
             THEN ToCsv([cols |-> merged.cols, rows |-> DropDuplicates(merged.rows)])
             ELSE ToCsv(df_new)

\* the rows of a batch whose key is not in S, in the batch's order
NotSeen(B, S) == SelectSeq(B, LAMBDA r : ItemKey(r) \notin S)

\* filter_new_items with the mask not negated: it keeps the rows already seen
FilterNewItemsKeepSeen(f, B) ==
    LET seen_keys == LoadSeenKeys(f)
    IN  IF seen_keys.none
        THEN [store |-> UpdateSeenKeys(f, B), new_df |-> B, is_baseline |-> TRUE]
        ELSE IF B = <<>>
        THEN [store |-> f, new_df |-> B, is_baseline |-> FALSE]
        ELSE [store |-> UpdateSeenKeys(f, B),
              new_df |-> SelectSeq(B, LAMBDA r : ItemKey(r) \in seen_keys.keys),
              is_baseline |-> FALSE]

\* filter_new_items whose first run does not record the baseline
FilterNewItemsNoBaseline(f, B) ==
    LET seen_keys == LoadSeenKeys(f)
    IN  IF seen_keys.none
        THEN [store |-> f, new_df |-> B, is_baseline |-> TRUE]
        ELSE IF B = <<>>
        THEN [store |-> f, new_df |-> B, is_baseline |-> FALSE]
        ELSE [store |-> UpdateSeenKeys(f, B),
              new_df |-> NotSeen(B, seen_keys.keys),
              is_baseline |-> FALSE]

\* filter_new_items(recent_df): the file it leaves and the pair it returns
FilterNewItems(f, B) ==
    LET seen_keys == LoadSeenKeys(f)
    IN  IF seen_keys.none
        THEN [store |-> UpdateSeenKeys(f, B), new_df |-> B, is_baseline |-> TRUE]
        ELSE IF B = <<>>
        THEN [store |-> f, new_df |-> B, is_baseline |-> FALSE]
        ELSE [store |-> UpdateSeenKeys(f, B),
              new_df |-> NotSeen(B, seen_keys.keys),
              is_baseline |-> FALSE]

----------------------------------------------------------------------------
(* The oracle client: score_item_with_deepseek                             *)

\* Python's `v or d` on a cell: the empty string is falsy, nan is truthy
Or(v, d) == IF v = "" THEN d ELSE v

\* whether a cell is a str (nan is a float)
IsStr(v) == v # NaN

Digit == {"0", "1", "2", "3", "4", "5", "6", "7", "8", "9"}

DigitValue(c) ==
    CASE c = "0" -> 0 [] c = "1" -> 1 [] c = "2" -> 2 [] c = "3" -> 3 [] c = "4" -> 4
      [] c = "5" -> 5 [] c = "6" -> 6 [] c = "7" -> 7 [] c = "8" -> 8 [] c = "9" -> 9

RECURSIVE DigitRun(_)
\* the digits a text starts with
DigitRun(text) ==
    IF text = <<>> \/ Head(text) \notin Digit THEN <<>>
    ELSE <<Head(text)>> \o DigitRun(Tail(text))

RECURSIVE FirstDigits(_)
\* re.findall(r"\d+", content)[0], or <<>> when findall finds nothing
FirstDigits(text) ==
    IF text = <<>> THEN <<>>
    ELSE IF Head(text) \in Digit THEN DigitRun(text)
    ELSE FirstDigits(Tail(text))

RECURSIVE Float(_)
\* float(digits)
Float(ds) ==
    IF ds = <<>> THEN 0
    ELSE 10 * Float(SubSeq(ds, 1, Len(ds) - 1)) + DigitValue(ds[Len(ds)])

Min(a, b) == IF a < b THEN a ELSE b

Max(a, b) == IF a > b THEN a ELSE b

\* what client.chat.completions.create does: it raises, or it answers with
\* no content, or with a text
ReplyRaises == [kind |-> "raises", text |-> <<>>]

ReplyNoContent == [kind |-> "no_content", text |-> <<>>]

ReplyText(t) == [kind |-> "text", text |-> t]

Raised == [exc |-> TRUE, score |-> 0]

Returned(x) == [exc |-> FALSE, score |-> x]

\* score_item_with_deepseek(client, user_profile, item) when the oracle
\* answers `reply`: the float it returns, or the exception it raises.
\* summary.strip() (line 198) runs before the try block.
ScoreItem(item, reply) ==
    LET summary == Or(Get(item, "summary", ""), "")
    IN  IF ~IsStr(summary) THEN Raised
        ELSE IF reply.kind = "raises" THEN Returned(0)
        ELSE IF reply.kind = "no_content" THEN Returned(0)
        ELSE LET digits == FirstDigits(reply.text)
             IN  IF digits = <<>> THEN Returned(0)
                 ELSE Returned(Max(0, Min(100, Float(digits))))

----------------------------------------------------------------------------
(* The ranking step: personalized_recommendations                          *)

NaT == [nat |-> TRUE, t |-> 0]

Instant(n) == [nat |-> FALSE, t |-> n]

\* pd.to_datetime(cell, errors="coerce", utc=True): the dates of the model,
\* NaT for anything else
ToDatetime(c) ==
    IF c = "2024-05-01" THEN Instant(1)
    ELSE IF c = "2024-05-02" THEN Instant(2)
    ELSE NaT

\* tmp["published"].fillna(tmp["fetched_at"]) of a row
Ts(item) ==
    LET published == ToDatetime(item.published)
    IN  IF published.nat THEN ToDatetime(item.fetched_at) ELSE published

\* the rows of a frame: each keeps its index label
Rows(df) == [i \in 1..Len(df) |-> [idx |-> i, item |-> df[i], ts |-> Ts(df[i]), score |-> 0]]

IndexPermutations(n) == {p \in [1..n -> 1..n] : \A i, j \in 1..n : i # j => p[i] # p[j]}

\* whether sort_values(ascending=False) must put a row with key kx before one
\* with key ky: a larger key first, missing keys last; px and py are the rows'
\* places in the frame being sorted (missing keys are appended in that order)
MustPrecede(kx, ky, px, py) ==
    \/ ~kx.nat /\ ky.nat
    \/ ~kx.nat /\ ~ky.nat /\ kx.t > ky.t
    \/ kx.nat /\ ky.nat /\ px < py

\* DataFrame.sort_values(by, ascending=False), kind left at its default
\* "quicksort", which is not stable: every order that is descending in the
\* key, rows of equal key in whatever order the build's sort leaves them.
\* keys[i] is the cell of rows[i] in the column sorted by.
SortValuesDescending(rows, keys) ==
    LET n == Len(rows)
        ok(p) == \A a, b \in 1..n :
                    a < b => ~MustPrecede(keys[p[b]], keys[p[a]], p[b], p[a])
    IN  {[i \in 1..n |-> rows[p[i]]] : p \in {q \in IndexPermutations(n) : ok(q)}}

\* DataFrame.head(k), k >= 0
HeadRows(rows, k) == SubSeq(rows, 1, Min(k, Len(rows)))

\* the _ts column of a frame
TsColumn(rows) == [i \in 1..Len(rows) |-> rows[i].ts]

\* the _personal_score column of a frame (floats, none missing)
ScoreColumn(rows) == [i \in 1..Len(rows) |-> Instant(rows[i].score)]

\* the early returns of personalized_recommendations: None when the feature
\* is off, the profile empty, the credential missing or the frame empty
ReturnsNone(s, df) ==
    \/ ~s.enable
    \/ s.user_profile = ""
    \/ s.api_key = ""
    \/ df = <<>>

\* a pool that starts a thread per submitted call, whatever max_workers is
PoolSizeUnbounded(s) == s.max_workers + Len(candidates)

\* ThreadPoolExecutor(max_workers=max_workers): the threads of the pool
PoolSize(s) == s.max_workers

Pending == {i \in 1..Len(futures) : futures[i].state = "pending"}

Running == {i \in 1..Len(futures) : futures[i].state = "running"}

\* list(executor.map(...)) has returned: the calling thread holds every result
Joined == collected = Len(futures)

----------------------------------------------------------------------------
(* Inputs                                                                  *)

\* longest batch a call is given
MaxBatch == 2

\* a row of the raw frame (fetch_feeds.py writes these columns)
Item(fid, link, summary, published, fetched) ==
    [feed_id |-> fid, link |-> link, summary |-> summary,
     published |-> published, fetched_at |-> fetched]

\* the rows the seen-store operations are called with: two rows with one key
\* (they differ in another column) and a row whose feed_id cell is empty
StoreItems ==
    {Item("A", "u1", "s", NaN, "1"),
     Item("A", "u1", NaN, NaN, "1"),
     Item(NaN, "u2", "s", NaN, "1")}

\* the sequences over S of length at most n
SeqsUpTo(S, n) == UNION {[1..k -> S] : k \in 0..n}

StoreBatches == SeqsUpTo(StoreItems, MaxBatch)

\* the files SEEN_PATH may hold when the program starts
InitStores ==
    {Absent,
     Unreadable,
     CsvFile({"key"}, <<>>),
     CsvFile({"key"}, <<[key |-> "A||u1"]>>),
     CsvFile({"key"}, <<[key |-> "B||u9"], [key |-> "A||u1"]>>),
     CsvFile({"other"}, <<>>),
     CsvFile({"other"}, <<[other |-> "x"]>>)}

----------------------------------------------------------------------------
(* Spec: the seen-store operations, called in any order                    *)

NoRet == [new_df |-> <<>>, is_baseline |-> FALSE, loaded |-> None]

NoFirst == [valid |-> FALSE, batch |-> <<>>]

\* the bookkeeping of a call: its count, and the first call of the program
Called(isFilter, B) ==
    /\ nops' = IF nops < 3 THEN nops + 1 ELSE nops
    /\ first' = IF nops = 0
                THEN (IF isFilter /\ ~Exists(store)
                      THEN [valid |-> TRUE, batch |-> B] ELSE NoFirst)
                ELSE IF nops = 1 THEN first ELSE NoFirst

\* the ranking step is not running
RankIdle ==
    /\ settings = [enable |-> FALSE, user_profile |-> "", api_key |-> "",
                   max_candidates |-> 0, top_n |-> 0, max_workers |-> 1]
    /\ new_items = <<>>
    /\ rpc = "idle"
    /\ candidates = <<>>
    /\ futures = <<>>
    /\ collected = 0
    /\ ranked = <<>>

\* main is not running
MainIdle ==
    /\ mpc = "idle"
    /\ raw_df = <<>>
    /\ is_baseline = FALSE
    /\ runs = 0
    /\ reported = {}
    /\ earlierNew = {}

Init ==
    /\ RankIdle
    /\ MainIdle
    /\ store \in InitStores
    /\ op = "init"
    /\ arg = <<>>
    /\ pre = store
    /\ ret = NoRet
    /\ everLoaded = {}
    /\ nops = 0
    /\ first = NoFirst

CallLoadSeenKeys ==
    /\ op' = "load"
    /\ arg' = <<>>
    /\ pre' = store
    /\ store' = store
    /\ ret' = [NoRet EXCEPT !.loaded = LoadSeenKeys(store)]
    /\ everLoaded' = everLoaded \cup LoadSeenKeys(store).keys
    /\ Called(FALSE, <<>>)
    /\ UNCHANGED <<rankVars, mainVars>>

CallUpdateSeenKeys ==
    \E B \in StoreBatches :
        /\ op' = "update"
        /\ arg' = B
        /\ pre' = store
        /\ store' = UpdateSeenKeys(store, B)
        /\ ret' = NoRet
        /\ everLoaded' = everLoaded
        /\ Called(FALSE, B)
        /\ UNCHANGED <<rankVars, mainVars>>

CallFilterNewItems ==
    \E B \in StoreBatches :
        LET r == FilterNewItems(store, B)
        IN  /\ op' = "filter"
            /\ arg' = B
            /\ pre' = store
            /\ store' = r.store
            /\ ret' = [new_df |-> r.new_df, is_baseline |-> r.is_baseline,
                       loaded |-> LoadSeenKeys(store)]
            /\ everLoaded' = everLoaded \cup LoadSeenKeys(store).keys
            /\ Called(TRUE, B)
            /\ UNCHANGED <<rankVars, mainVars>>

Next == CallLoadSeenKeys \/ CallUpdateSeenKeys \/ CallFilterNewItems

vars == <<storeVars, rankVars, mainVars>>

Spec == Init /\ [][Next]_vars

----------------------------------------------------------------------------
(* SpecRank: one call of personalized_recommendations                      *)

\* longest frame the ranking step is given; max_candidates and top_n range
\* over 0..MaxItems
MaxItems == 2

\* largest max_workers
MaxWorkers == 2

\* the rows the ranking step is given: a dated row, a row with no published
\* date and an empty summary cell, and a row with no date at all
RankItems ==
    {Item("A", "u1", "s", "2024-05-02", "2024-05-01"),
     Item("A", "u2", NaN, NaN, "2024-05-01"),
     Item("A", "u3", "s", NaN, NaN)}

\* what the oracle may do on a call
Replies ==
    {ReplyRaises,
     ReplyNoContent,
     ReplyText(<<"n", "/", "a">>),
     ReplyText(<<"~", "7", ".", "5">>),
     ReplyText(<<"1", "5", "0">>)}

\* the seen-store operations are not being called one by one
StoreIdle ==
    /\ op = "init"
    /\ arg = <<>>
    /\ pre = Absent
    /\ ret = NoRet
    /\ everLoaded = {}
    /\ nops = 0
    /\ first = NoFirst

InitRank ==
    /\ StoreIdle
    /\ MainIdle
    /\ store = Absent
    /\ settings \in [enable : BOOLEAN, user_profile : {"", "nlp"}, api_key : {"", "sk"},
                     max_candidates : 0..MaxItems, top_n : 0..MaxItems,
                     max_workers : 1..MaxWorkers]
    /\ new_items \in SeqsUpTo(RankItems, MaxItems)
    /\ rpc = "called"
    /\ candidates = <<>>
    /\ futures = <<>>
    /\ collected = 0
    /\ ranked = <<>>

\* lines 283-304: the call returns None
RankReturnNone ==
    /\ rpc = "called"
    /\ ReturnsNone(settings, new_items)
    /\ rpc' = "returned_none"
    /\ UNCHANGED <<settings, new_items, candidates, futures, collected, ranked>>
    /\ UNCHANGED <<storeVars, mainVars>>

\* lines 306-325: sort by recency, cut the window, submit one call per
\* candidate to the pool (executor.map submits them all before it yields)
RankDispatch ==
    /\ rpc = "called"
    /\ ~ReturnsNone(settings, new_items)
    /\ \E tmp \in SortValuesDescending(Rows(new_items), TsColumn(Rows(new_items))) :
          /\ candidates' = HeadRows(tmp, settings.max_candidates)
          /\ futures' = [i \in 1..Len(candidates') |->
                            [state |-> "pending", calls |-> 0, result |-> Returned(0)]]
    /\ rpc' = "scoring"
    /\ UNCHANGED <<settings, new_items, collected, ranked>>
    /\ UNCHANGED <<storeVars, mainVars>>

\* a pool thread takes the oldest queued call
WorkerStart ==
    /\ rpc \in {"scoring", "raising"}
    /\ Pending # {}
    /\ Cardinality(Running) < PoolSize(settings)
    /\ LET i == CHOOSE k \in Pending : \A m \in Pending : k <= m
       IN  futures' = [futures EXCEPT ![i].state = "running", ![i].calls = @ + 1]
    /\ UNCHANGED <<settings, new_items, rpc, candidates, collected, ranked>>
    /\ UNCHANGED <<storeVars, mainVars>>

\* a running call ends: _score returns or raises, and the future holds it
WorkerFinish ==
    /\ rpc \in {"scoring", "raising"}
    /\ \E i \in Running : \E reply \in Replies :
          futures' = [futures EXCEPT ![i] =
                         [state |-> "done", calls |-> futures[i].calls,
                          result |-> ScoreItem(candidates[i].item, reply)]]
    /\ UNCHANGED <<settings, new_items, rpc, candidates, collected, ranked>>
    /\ UNCHANGED <<storeVars, mainVars>>

\* list(executor.map(...)) takes the next result, in submission order
CollectResult ==
    /\ rpc = "scoring"
    /\ collected < Len(futures)
    /\ futures[collected + 1].state = "done"
    /\ ~futures[collected + 1].result.exc
    /\ collected' = collected + 1
    /\ UNCHANGED <<settings, new_items, rpc, candidates, futures, ranked>>
    /\ UNCHANGED <<storeVars, mainVars>>

\* the next result is an exception: map re-raises it and cancels the calls
\* still queued
CollectException ==
    /\ rpc = "scoring"
    /\ collected < Len(futures)
    /\ futures[collected + 1].state = "done"
    /\ futures[collected + 1].result.exc
    /\ futures' = [i \in 1..Len(futures) |->
                      IF futures[i].state = "pending"
                      THEN [futures[i] EXCEPT !.state = "cancelled"] ELSE futures[i]]
    /\ rpc' = "raising"
    /\ UNCHANGED <<settings, new_items, candidates, collected, ranked>>
    /\ UNCHANGED <<storeVars, mainVars>>

\* the with block ends on the exception: shutdown(wait=True) has waited for
\* the running calls, and the exception leaves personalized_recommendations
RankRaise ==
    /\ rpc = "raising"
    /\ Running = {}
    /\ rpc' = "raised"
    /\ UNCHANGED <<settings, new_items, candidates, futures, collected, ranked>>
    /\ UNCHANGED <<storeVars, mainVars>>

\* lines 327-330: attach the scores, sort by score, keep top_n
RankFinalSort ==
    /\ rpc = "scoring"
    /\ Joined
    /\ LET scored == [i \in 1..Len(candidates) |->
                         [candidates[i] EXCEPT !.score = futures[i].result.score]]
       IN  \E sorted \in SortValuesDescending(scored, ScoreColumn(scored)) :
               ranked' = HeadRows(sorted, settings.top_n)
    /\ rpc' = "ranked"
    /\ UNCHANGED <<settings, new_items, candidates, futures, collected>>
    /\ UNCHANGED <<storeVars, mainVars>>

NextRank ==
    \/ RankReturnNone
    \/ RankDispatch
    \/ WorkerStart
    \/ WorkerFinish
    \/ CollectResult
    \/ CollectException
    \/ RankRaise
    \/ RankFinalSort

SpecRank == InitRank /\ [][NextRank]_vars

----------------------------------------------------------------------------
(* Claims about the seen-store                                             *)

\* the keys a load_seen_keys call on file f returns (none for None)
Persisted(f) == LoadSeenKeys(f).keys

\* the state after filter_new_items(B1) then filter_new_items(B2) from an
\* absent store
TwoRuns == nops = 2 /\ first.valid /\ op = "filter"

RECURSIVE FirstNew(_, _)
\* the rows of B whose key is not in S and is not the key of an earlier row of B
FirstNew(B, S) ==
    IF B = <<>> THEN <<>>
    ELSE LET init == SubSeq(B, 1, Len(B) - 1)
             last == B[Len(B)]
         IN  IF ItemKey(last) \in S \cup Keys(init) THEN FirstNew(init, S)
             ELSE Append(FirstNew(init, S), last)

\* C1 as claimed: after B1 then B2 from an absent store, the rows returned for
\* B2 are those whose key is neither a key of B1 nor the key of an earlier row
\* of B2, and is_baseline is false
C1_NoveltyAsClaimed ==
    TwoRuns => /\ ret.new_df = FirstNew(arg, Keys(first.batch))
               /\ ret.is_baseline = FALSE

\* C1 amended: after B1 then B2 from an absent store, the rows returned for B2
\* are all the rows of B2 (repeated keys included, in order) whose key is not a
\* key of B1, and is_baseline is false exactly when B1 was not empty
C1_Novelty ==
    TwoRuns => /\ ret.new_df = NotSeen(arg, Keys(first.batch))
               /\ ret.is_baseline = (first.batch = <<>>)

C1_Witness ==
    /\ TwoRuns
    /\ first.batch # <<>>
    /\ ~ret.is_baseline
    /\ ret.new_df # <<>>
    /\ ret.new_df # arg

\* C2 as claimed: filter_new_items(B) on an absent or empty store returns
\* (B, true) and leaves exactly the keys of B persisted
C2_BaselineAsClaimed ==
    (op = "filter" /\ (~Exists(pre) \/ (pre.kind = "csv" /\ pre.rows = <<>>)))
        => /\ ret.new_df = arg
           /\ ret.is_baseline
           /\ Persisted(store) = Keys(arg)

\* C2 amended: filter_new_items(B) on an absent store returns (B, true) and
\* leaves exactly the keys of B persisted, for every batch B
C2_Baseline ==
    (op = "filter" /\ ~Exists(pre))
        => /\ ret.new_df = arg
           /\ ret.is_baseline
           /\ Persisted(store) = Keys(arg)

C2_Witness ==
    /\ op = "filter"
    /\ ~Exists(pre)
    /\ Len(arg) > Cardinality(Keys(arg))
    /\ ret.is_baseline
    /\ Persisted(store) = Keys(arg)

\* C3: the persisted keys only grow: no operation removes a key the file held
\* when it started, and every key a load_seen_keys call has returned is still
\* returned
C3_AppendOnly ==
    /\ Persisted(pre) \subseteq Persisted(store)
    /\ everLoaded \subseteq Persisted(store)

C3_Witness ==
    /\ op \in {"update", "filter"}
    /\ everLoaded # {}
    /\ Persisted(pre) # {}
    /\ Persisted(pre) # Persisted(store)

\* C8 as claimed: filter_new_items on an empty batch returns ([], false) and
\* leaves the file unchanged, whatever the file holds
C8_EmptyBatchAsClaimed ==
    (op = "filter" /\ arg = <<>>)
        => /\ ret.new_df = <<>>
           /\ ret.is_baseline = FALSE
           /\ store = pre

\* C8 amended: filter_new_items on an empty batch returns the empty batch and
\* leaves the file unchanged; is_baseline is false when load_seen_keys gives a
\* key set and true when the file is absent or malformed
C8_EmptyBatch ==
    (op = "filter" /\ arg = <<>>)
        => /\ ret.new_df = <<>>
           /\ ret.is_baseline = LoadSeenKeys(pre).none
           /\ store = pre

C8_Witness ==
    /\ op = "filter"
    /\ arg = <<>>
    /\ Persisted(pre) # {}
    /\ ~ret.is_baseline
    /\ store = pre

\* a file that is present but unreadable or without the key column
Malformed(f) == f.kind = "unreadable" \/ (f.kind = "csv" /\ "key" \notin f.cols)

\* C9: filter_new_items(B) on a malformed file behaves as on an absent one:
\* load_seen_keys gives None, the call returns (B, true), and the next
\* load_seen_keys returns what it returns after the same call on an absent file
C9_FailOpen ==
    (op = "filter" /\ Malformed(pre))
        => /\ LoadSeenKeys(pre).none
           /\ ret.new_df = arg
           /\ ret.is_baseline
           /\ LoadSeenKeys(store) = LoadSeenKeys(FilterNewItems(Absent, arg).store)

----------------------------------------------------------------------------
(* SpecMain: successive runs of main over one persisted store              *)

\* runs of main
MaxRuns == 2

\* the rows of the raw files: a row with a summary and one without
MainItems ==
    {Item("A", "u1", "s", "2024-05-02", "2024-05-01"),
     Item("A", "u2", NaN, NaN, "2024-05-01")}

\* the settings and credential a run may find
MainSettings ==
    {[enable |-> FALSE, user_profile |-> "nlp", api_key |-> "sk",
      max_candidates |-> 1, top_n |-> 1, max_workers |-> 1],
     [enable |-> TRUE, user_profile |-> "", api_key |-> "sk",
      max_candidates |-> 1, top_n |-> 1, max_workers |-> 1],
     [enable |-> TRUE, user_profile |-> "nlp", api_key |-> "",
      max_candidates |-> 1, top_n |-> 1, max_workers |-> 1],
     [enable |-> TRUE, user_profile |-> "nlp", api_key |-> "sk",
      max_candidates |-> 1, top_n |-> 0, max_workers |-> 1],
     [enable |-> TRUE, user_profile |-> "nlp", api_key |-> "sk",
      max_candidates |-> 2, top_n |-> 1, max_workers |-> 2]}

InitMain ==
    /\ StoreIdle
    /\ RankIdle
    /\ store \in {Absent, Unreadable, CsvFile({"key"}, <<[key |-> "A||u1"]>>),
                  CsvFile({"other"}, <<[other |-> "x"]>>)}
    /\ mpc = "start"
    /\ raw_df = <<>>
    /\ is_baseline = FALSE
    /\ runs = 0
    /\ reported = {}
    /\ earlierNew = {}

\* the seen-update of a run put off until after the report
StoreAfterFilterDeferred(f, B) == f

\* the file filter_new_items(df) leaves (main, line 443)
StoreAfterFilter(f, B) == FilterNewItems(f, B).store

\* main ended: it returned, or an exception ended it
MainEnded == mpc \in {"returned", "reported", "crashed"}

\* a run starts (lines 429-434): load_latest_raw gives no frame or an empty
\* one and main returns, or it gives a frame; load_settings reads the settings
MainLoadRaw ==
    /\ mpc = "start" \/ MainEnded
    /\ runs < MaxRuns
    /\ runs' = runs + 1
    /\ earlierNew' = earlierNew \cup Keys(new_items)
    /\ \E B \in SeqsUpTo(MainItems, MaxBatch) :
          /\ raw_df' = B
          /\ mpc' = IF B = <<>> THEN "returned" ELSE "loaded"
    /\ settings' \in MainSettings
    /\ new_items' = <<>>
    /\ is_baseline' = FALSE
    /\ rpc' = "idle"
    /\ candidates' = <<>>
    /\ futures' = <<>>
    /\ collected' = 0
    /\ ranked' = <<>>
    /\ UNCHANGED <<storeVars, reported>>

\* lines 443-451: filter_new_items(df); main returns when nothing is new
MainFilter ==
    /\ mpc = "loaded"
    /\ LET r == FilterNewItems(store, raw_df)
       IN  /\ store' = StoreAfterFilter(store, raw_df)
           /\ new_items' = r.new_df
           /\ is_baseline' = r.is_baseline
           /\ mpc' = IF r.new_df = <<>> THEN "returned" ELSE "filtered"
    /\ UNCHANGED <<op, arg, pre, ret, everLoaded, nops, first>>
    /\ UNCHANGED <<settings, rpc, candidates, futures, collected, ranked>>
    /\ UNCHANGED <<raw_df, runs, reported, earlierNew>>

\* line 454: main calls personalized_recommendations(recent_new, settings)
MainCallRank ==
    /\ mpc = "filtered"
    /\ mpc' = "ranking"
    /\ rpc' = "called"
    /\ UNCHANGED <<settings, new_items, candidates, futures, collected, ranked>>
    /\ UNCHANGED <<storeVars, raw_df, is_baseline, runs, reported, earlierNew>>

\* the exception of a score call leaves main
MainCrash ==
    /\ mpc = "ranking"
    /\ rpc = "raised"
    /\ mpc' = "crashed"
    /\ UNCHANGED <<storeVars, rankVars, raw_df, is_baseline, runs, reported, earlierNew>>

\* lines 456-459: nothing to recommend
MainNothingToReport ==
    /\ mpc = "ranking"
    /\ rpc = "returned_none" \/ (rpc = "ranked" /\ ranked = <<>>)
    /\ mpc' = "returned"
    /\ UNCHANGED <<storeVars, rankVars, raw_df, is_baseline, runs, reported, earlierNew>>

\* lines 461-463: generate_and_save_report writes the ranked rows
MainReport ==
    /\ mpc = "ranking"
    /\ rpc = "ranked"
    /\ ranked # <<>>
    /\ reported' = reported \cup {ItemKey(ranked[i].item) : i \in 1..Len(ranked)}
    /\ mpc' = "reported"
    /\ UNCHANGED <<storeVars, rankVars, raw_df, is_baseline, runs, earlierNew>>

NextMain ==
    \/ MainLoadRaw
    \/ MainFilter
    \/ MainCallRank
    \/ RankReturnNone
    \/ RankDispatch
    \/ WorkerStart
    \/ WorkerFinish
    \/ CollectResult
    \/ CollectException
    \/ RankRaise
    \/ RankFinalSort
    \/ MainCrash
    \/ MainNothingToReport
    \/ MainReport

SpecMain == InitMain /\ [][NextMain]_vars

----------------------------------------------------------------------------
(* Claims about the oracle client and the ranking step (SpecRank)          *)

\* personalized_recommendations has ended, one way or another
RankEnded == rpc \in {"returned_none", "ranked", "raised"}

\* C4: no score call raises, whatever the oracle does and whatever the item's
\* cells hold, so no exception leaves personalized_recommendations
C4_OracleIsolation ==
    /\ \A i \in 1..Len(futures) : futures[i].state = "done" => ~futures[i].result.exc
    /\ rpc \notin {"raising", "raised"}

\* whether row x comes before row y in recency order: the later timestamp
\* first, a missing timestamp last, the input order among equal or missing ones
RecencyBefore(x, y) ==
    \/ ~x.ts.nat /\ y.ts.nat
    \/ ~x.ts.nat /\ ~y.ts.nat /\ x.ts.t > y.ts.t
    \/ x.ts = y.ts /\ x.idx < y.idx

\* C5: the returned rows are in descending score order, rows of equal score
\* in recency order
C5_RankingOrder ==
    rpc = "ranked" =>
        \A a, b \in 1..Len(ranked) :
            a < b => \/ ranked[a].score > ranked[b].score
                     \/ /\ ranked[a].score = ranked[b].score
                        /\ RecencyBefore(ranked[a], ranked[b])

\* the rows of the frame strictly more recent than row x
MoreRecent(x) ==
    {j \in 1..Len(new_items) :
        LET tj == Ts(new_items[j])
        IN  ~tj.nat /\ (x.ts.nat \/ tj.t > x.ts.t)}

\* C6: with ranking enabled, a profile, a client and a non-empty frame, the
\* call returns min(top_n, min(max_candidates, len(new_items))) rows, all
\* among the max_candidates most recent
C6_TruncationBound ==
    (RankEnded /\ ~ReturnsNone(settings, new_items)) =>
        /\ rpc = "ranked"
        /\ Len(ranked) = Min(settings.top_n, Min(settings.max_candidates, Len(new_items)))
        /\ \A a \in 1..Len(ranked) :
              Cardinality(MoreRecent(ranked[a])) < settings.max_candidates

\* the score calls have been submitted
Dispatched == rpc \in {"scoring", "raising", "raised", "ranked"}

\* C7: one score call is submitted per candidate and none runs twice, never
\* more than max_workers calls run at once, and the final sort has not
\* happened unless every call has run once and returned
C7_BoundedFanOut ==
    /\ Cardinality(Running) <= settings.max_workers
    /\ Dispatched => Len(futures) = Len(candidates)
    /\ \A i \in 1..Len(futures) : futures[i].calls <= 1
    /\ rpc = "ranked" =>
          \A i \in 1..Len(futures) : futures[i].state = "done" /\ futures[i].calls = 1

C7_Witness ==
    /\ rpc = "scoring"
    /\ Cardinality(Running) = settings.max_workers
    /\ Pending # {}

----------------------------------------------------------------------------
(* Claims about main (SpecMain)                                            *)

\* an oracle call of this run has been submitted, or main has gone on to the
\* ranking step or written the report
PastFilter == futures # <<>> \/ mpc \in {"ranking", "crashed", "reported"}

\* C10: once a run has submitted an oracle call, reached the ranking step or
\* written its report, the keys of its whole raw frame are persisted; and no
\* key classified as new in an earlier run is classified as new again,
\* reported or not
C10_SeenBeforeReport ==
    /\ PastFilter => Keys(raw_df) \subseteq Persisted(store)
    /\ mpc \in {"filtered", "ranking", "returned", "reported", "crashed"}
          => Keys(new_items) \cap earlierNew = {}

C10_Witness ==
    /\ runs = 2
    /\ mpc = "returned"
    /\ earlierNew # {}
    /\ reported = {}
    /\ Keys(raw_df) \cap earlierNew # {}
    /\ new_items # <<>>

=============================================================================
